---- MODULE Spec2Model ----
(***************************************************************************)
(* Model of the forward-protocol input plugin (plugins/in_forward.go) and  *)
(* of the bulk encoder of the load generator (entrypoints/ikb/main.go).    *)
(*                                                                         *)
(* Values.  A decoded msgpack value (Go interface{}) is a record tagged    *)
(* by its dynamic type in field t:                                         *)
(*   nil | bool | uint64 | float64 | []byte | string | []interface{} |     *)
(*   map[string]interface{}                                                *)
(* float64 values are kept in tenths (Float(15) is 1.5).  The content of a *)
(* string or of a []byte is a sequence of octets; an octet is either a     *)
(* plain character (Chr) or one msgpack item head (the tokens below), so   *)
(* that a []byte can hold an encoded message (PackedForward).              *)
(***************************************************************************)
EXTENDS Integers, Sequences, FiniteSets, TLC

\* ------------------------------------------------------------------ bounds
MaxPairs == 2        \* entries carried by one bulk frame
MaxDepth == 1        \* nesting depth of the values inside a data mapping
MaxConns == 2        \* connections the listener accepts
MaxSends == 2        \* transport events (messages, EOF, temporary errors)

\* ------------------------------------------------------------------ values
Nil       == [t |-> "nil"]
Bool(b)   == [t |-> "bool", b |-> b]
Uint(n)   == [t |-> "uint64", n |-> n]
Float(n)  == [t |-> "float64", n |-> n]
Bytes(s)  == [t |-> "bytes", s |-> s]
Str(s)    == [t |-> "string", s |-> s]
Arr(e)    == [t |-> "slice", e |-> e]
Map(m)    == [t |-> "map", m |-> m]

Chr(c)    == [k |-> "chr", c |-> c]
Text(c)   == <<Chr(c)>>

EmptyMap  == [x \in {} |-> Nil]
OneMap(key, v) == [x \in {key} |-> v]

\* --------------------------------------------------- msgpack item heads
TNil      == [k |-> "nil"]
TBool(b)  == [k |-> "bool", b |-> b]
TUint(n)  == [k |-> "uint", n |-> n]
TFloat(n) == [k |-> "float", n |-> n]
TRaw(s)   == [k |-> "raw", s |-> s]
TArray(n) == [k |-> "array", n |-> n]
TMap(n)   == [k |-> "map", n |-> n]

\* ------------------------------------------------------------- encoder
\* codec.Encoder.Encode with the MsgpackHandle of NewIkBench: a Go string
\* and a []byte are both written as msgpack raw; a map writes its pairs
\* with the key as raw.
RECURSIVE KeySeq(_)
KeySeq(S) ==
  IF S = {} THEN <<>>
  ELSE LET x == CHOOSE y \in S : TRUE IN <<x>> \o KeySeq(S \ {x})

RECURSIVE Encode(_)
RECURSIVE EncodeAll(_)
RECURSIVE EncodeMap(_, _)
Encode(v) ==
  CASE v.t = "nil"     -> <<TNil>>
    [] v.t = "bool"    -> <<TBool(v.b)>>
    [] v.t = "uint64"  -> <<TUint(v.n)>>
    [] v.t = "float64" -> <<TFloat(v.n)>>
    [] v.t = "bytes"   -> <<TRaw(v.s)>>
    [] v.t = "string"  -> <<TRaw(v.s)>>
    [] v.t = "slice"   -> <<TArray(Len(v.e))>> \o EncodeAll(v.e)
    [] v.t = "map"     -> <<TMap(Cardinality(DOMAIN v.m))>>
                            \o EncodeMap(v.m, KeySeq(DOMAIN v.m))
EncodeAll(e) ==
  IF e = <<>> THEN <<>> ELSE Encode(Head(e)) \o EncodeAll(Tail(e))
EncodeMap(m, ks) ==
  IF ks = <<>> THEN <<>>
  ELSE <<TRaw(Text(Head(ks)))>> \o Encode(m[Head(ks)]) \o EncodeMap(m, Tail(ks))

\* A Record struct is written as the array [Timestamp, Data]
\* (StructToArray = true).
EncodeRecord(r) == Arr(<<Uint(r.Timestamp), Map(r.Data)>>)

RECURSIVE RecordValues(_)
RecordValues(records) ==
  IF records = <<>> THEN <<>>
  ELSE <<EncodeRecord(Head(records))>> \o RecordValues(Tail(records))

\* IkBench.encodeEntryBulk: enc.Encode([]interface{}{tag, records})
encodeEntryBulk(tag, records) ==
  Encode(Arr(<<Str(tag), Arr(RecordValues(records))>>))

\* ------------------------------------------------------------- decoder
\* codec.Decoder.Decode into interface{} with MapType map[string]interface{}
\* and RawToString = false: raw becomes []byte, a map key becomes a string.
\* The result is [ok, v, nx]: nx is the position after the decoded item.
DecFail == [ok |-> FALSE, v |-> Nil, nx |-> 0]
DecOk(v, nx) == [ok |-> TRUE, v |-> v, nx |-> nx]

\* the value of a one-element set: Only({F(r) : r \in {e}}) is F(e) with
\* e evaluated once
Only(S) == CHOOSE y \in S : TRUE

RECURSIVE DecodeNaked(_, _)
RECURSIVE DecodeItems(_, _, _, _)
RECURSIVE DecodePairs(_, _, _, _)
DecodeNaked(toks, i) ==
  IF i > Len(toks) THEN DecFail
  ELSE
    CASE toks[i].k = "nil"   -> DecOk(Nil, i + 1)
      [] toks[i].k = "bool"  -> DecOk(Bool(toks[i].b), i + 1)
      [] toks[i].k = "uint"  -> DecOk(Uint(toks[i].n), i + 1)
      [] toks[i].k = "float" -> DecOk(Float(toks[i].n), i + 1)
      [] toks[i].k = "raw"   -> DecOk(Bytes(toks[i].s), i + 1)
      [] toks[i].k = "array" ->
           Only({IF r.ok THEN DecOk(Arr(r.v), r.nx) ELSE DecFail :
                 r \in {DecodeItems(toks, i + 1, toks[i].n, <<>>)}})
      [] toks[i].k = "map"   ->
           Only({IF r.ok THEN DecOk(Map(r.v), r.nx) ELSE DecFail :
                 r \in {DecodePairs(toks, i + 1, toks[i].n, EmptyMap)}})
      [] OTHER               -> DecFail
DecodeItems(toks, i, n, acc) ==
  IF n = 0 THEN [ok |-> TRUE, v |-> acc, nx |-> i]
  ELSE Only({IF r.ok THEN DecodeItems(toks, r.nx, n - 1, Append(acc, r.v))
             ELSE [ok |-> FALSE, v |-> <<>>, nx |-> 0] :
             r \in {DecodeNaked(toks, i)}})
DecodePairs(toks, i, n, acc) ==
  IF n = 0 THEN [ok |-> TRUE, v |-> acc, nx |-> i]
  ELSE IF i > Len(toks) \/ toks[i].k # "raw" \/ Len(toks[i].s) # 1
            \/ toks[i].s[1].k # "chr"
       THEN [ok |-> FALSE, v |-> EmptyMap, nx |-> 0]
       ELSE Only({IF r.ok
                  THEN DecodePairs(toks, r.nx, n - 1,
                         [x \in DOMAIN acc \cup {toks[i].s[1].c} |->
                            IF x = toks[i].s[1].c THEN r.v ELSE acc[x]])
                  ELSE [ok |-> FALSE, v |-> EmptyMap, nx |-> 0] :
                  r \in {DecodeNaked(toks, i + 1)}})

\* Decode(&entries) with entries a []interface{}: the message must be one
\* array; its elements are decoded as above.
DecodeSlice(toks) ==
  IF toks = <<>> \/ toks[1].k # "array"
  THEN [ok |-> FALSE, v |-> <<>>]
  ELSE Only({IF r.ok /\ r.nx = Len(toks) + 1
             THEN [ok |-> TRUE, v |-> r.v]
             ELSE [ok |-> FALSE, v |-> <<>>] :
             r \in {DecodeItems(toks, 2, toks[1].n, <<>>)}})

\* v := []interface{}{nil, nil, nil}; c.dec.Decode(&v): the first three
\* elements of the array land in v, the slots the message does not fill
\* stay nil.
DecodeFrame(toks) ==
  Only({IF ~r.ok THEN [ok |-> FALSE, v |-> <<Nil, Nil, Nil>>]
        ELSE [ok |-> TRUE,
              v  |-> [j \in 1..3 |-> IF j <= Len(r.v) THEN r.v[j] ELSE Nil]] :
        r \in {DecodeSlice(toks)}})

\* ------------------------------------------------------- in_forward.go
\* coerceInPlace: a []byte value becomes a string, a nested map is
\* coerced recursively, every other value (a slice included) is left
\* as it is.
RECURSIVE coerceInPlace(_)
coerceInPlace(data) ==
  [key \in DOMAIN data |->
     CASE data[key].t = "bytes" -> Str(data[key].s)
       [] data[key].t = "map"   -> Map(coerceInPlace(data[key].m))
       [] OTHER                 -> data[key]]

FluentRecord(tag, timestamp, data) ==
  [Tag |-> tag, Timestamp |-> timestamp, Data |-> data]

\* Result of a decode: kind is "ok" (retval holds the records), "err"
\* (an error value, err names it) or "panic" (a run-time panic: failed
\* type assertion or index out of range).
Ok(retval)  == [kind |-> "ok", err |-> "", retval |-> retval]
Err(msg)    == [kind |-> "err", err |-> msg, retval |-> <<>>]
Panic(msg)  == [kind |-> "panic", err |-> msg, retval |-> <<>>]

RECURSIVE decodeTinyLoop(_, _, _)
decodeTinyLoop(tag, entries, retval) ==
  IF entries = <<>> THEN Ok(retval)
  ELSE LET _entry == Head(entries) IN
    IF _entry.t # "slice"
    THEN Panic("interface conversion")           \* _entry.([]interface{})
    ELSE LET entry == _entry.e IN
      IF Len(entry) < 1 THEN Panic("index out of range")        \* entry[0]
      ELSE IF entry[1].t # "uint64"
      THEN Err("Failed to decode timestamp field")
      ELSE IF Len(entry) < 2 THEN Panic("index out of range")   \* entry[1]
      ELSE IF entry[2].t # "map"
      THEN Err("Failed to decode data field")
      ELSE decodeTinyLoop(tag, Tail(entries),
             Append(retval,
               FluentRecord(tag.s, entry[1].n, coerceInPlace(entry[2].m))))

\* the loop filling retval from the back: retval[len-1-i] = ...
RECURSIVE Reversed(_)
Reversed(q) == IF q = <<>> THEN <<>> ELSE Append(Reversed(Tail(q)), Head(q))
decodeTinyEntries_reversed(tag, entries) ==
  Only({[r EXCEPT !.retval = Reversed(r.retval)] :
        r \in {decodeTinyLoop(tag, entries, <<>>)}})

decodeTinyEntries(tag, entries) == decodeTinyLoop(tag, entries, <<>>)

\* uint64(f) of a float64 that uint64 cannot hold (f <= -1.0) is
\* implementation-dependent: a build saturates to 0 or yields a huge
\* value, for which the top of the model's integers stands
OutOfRange == {0, 2147483647}
VARIABLE
  float2uint    \* what this build's uint64(f) gives for such an f

\* uint64(f) for a float64 kept in tenths: the fraction is discarded,
\* truncating towards zero
TruncFloat(n) ==
  IF n >= 0 THEN n \div 10
  ELSE IF n > -10 THEN 0
  ELSE float2uint

\* case uint64: the Message shape
decodeMessage(tag, timestamp, third) ==
  IF third.t # "map" THEN Err("Failed to decode data field")
  ELSE Ok(<<FluentRecord(tag.s, timestamp.n, coerceInPlace(third.m))>>)

\* case float64: the Message shape with uint64(timestamp); this branch
\* does not call coerceInPlace
decodeMessageFloat(tag, timestamp, third) ==
  IF third.t # "map" THEN Err("Failed to decode data field")
  ELSE Ok(<<FluentRecord(tag.s, TruncFloat(timestamp.n), third.m)>>)

\* the inner decode keeping only the first element of the packed array
decodePackedForward_first(tag, raw) ==
  Only({IF ~inner.ok THEN Err("decode error")
        ELSE decodeTinyEntries(tag, [j \in 1..(IF inner.v = <<>> THEN 0 ELSE 1)
                                       |-> inner.v[j]]) :
        inner \in {DecodeSlice(raw.s)}})

\* case []byte: PackedForward, the raw bytes are decoded with the same
\* codec handle into a []interface{}
decodePackedForward(tag, raw) ==
  Only({IF ~inner.ok THEN Err("decode error")
        ELSE decodeTinyEntries(tag, inner.v) :
        inner \in {DecodeSlice(raw.s)}})

\* forwardClient.decodeEntries without its two effects (the read from the
\* connection and the atomic add): toks is the message read from the
\* connection.
decodeEntries(toks) ==
  Only({
    IF ~f.ok THEN Err("decode error")
    ELSE IF f.v[1].t # "bytes" THEN Err("Failed to decode tag field")
    ELSE
      CASE f.v[2].t = "uint64"  -> decodeMessage(f.v[1], f.v[2], f.v[3])
        [] f.v[2].t = "float64" -> decodeMessageFloat(f.v[1], f.v[2], f.v[3])
        [] f.v[2].t = "slice"   ->
             \* "if !ok" re-tests the tag assertion, which succeeded
             decodeTinyEntries(f.v[1], f.v[2].e)
        [] f.v[2].t = "bytes"   -> decodePackedForward(f.v[1], f.v[2])
        [] OTHER                -> Err("Unknown type")
    : f \in {DecodeFrame(toks)}})

\* counting frames instead of entries
AtomicAddInt64_perFrame(old, delta) == old + 1

\* atomic.AddInt64(&c.input.entries, int64(len(retval)))
AtomicAddInt64(old, delta) == old + delta

\* markCharged / markDischarged on the clients map (keyed by connection):
\* the registries the insert or delete can leave behind.  The map is
\* written without a lock; a write that overlaps another goroutine's
\* access to the map (racing) is a data race, after which the write may
\* also be lost.
markCharged(reg, c, racing) ==
  {reg \cup {c}} \cup (IF racing THEN {reg} ELSE {})
markDischarged(reg, c, racing) ==
  {reg \ {c}} \cup (IF racing THEN {reg} ELSE {})

\* ------------------------------------------------------------- inputs
RECURSIVE Vals(_, _)
Vals(leaves, d) ==
  IF d = 0 THEN leaves
  ELSE LET s == Vals(leaves, d - 1) IN
       leaves \cup {Arr(<<x>>) : x \in s} \cup {Map(OneMap("k", x)) : x \in s}

\* values as they come off the wire (text arrives as []byte)
WireVals  == Vals({Bytes(Text("x")), Uint(5)}, MaxDepth)
WireMaps  == {OneMap("k", x) : x \in WireVals}
\* values of a JSON payload template (json.Unmarshal into interface{})
JsonVals  == Vals({Str(Text("x")), Float(15)}, MaxDepth)
JsonMaps  == {OneMap("k", x) : x \in JsonVals}

Stamps    == {1000, 2000}
Tags      == {Text("a"), Text("b")}

\* elements of a bulk frame: well-formed pairs, pairs with a float64
\* timestamp, and malformed elements
Elements ==
  {Arr(<<ts, Map(m)>>) : ts \in {Uint(n) : n \in Stamps} \cup {Float(10005)},
                         m \in WireMaps}
  \cup {Arr(<<Float(n), Map(EmptyMap)>>) : n \in {-5, -15}}
  \cup {Arr(<<Uint(1000), Bytes(Text("x"))>>), Arr(<<Uint(1000)>>), Uint(9)}

SeqsUpTo(S, n) == UNION {[1..m -> S] : m \in 0..n}

FrameInputs ==
  [mode : {"frame"},
   tag  : {Bytes(x) : x \in Tags} \cup {Uint(7)},
   items : SeqsUpTo(Elements, MaxPairs)]
Records == [Timestamp : Stamps, Data : JsonMaps]
BenchInputs ==
  [mode : {"bench"}, tag : Tags, items : SeqsUpTo(Records, MaxPairs)]

\* the three wire shapes of one frame
MessageWire(tag, pair)  == Encode(Arr(<<tag, pair.e[1], pair.e[2]>>))
ForwardWire(tag, items) == Encode(Arr(<<tag, Arr(items)>>))
PackedWire(tag, items)  == Encode(Arr(<<tag, Bytes(Encode(Arr(items)))>>))

\* messages a peer sends in the listener model
PairA == Arr(<<Uint(1000), Map(OneMap("k", Bytes(Text("x"))))>>)
PairB == Arr(<<Uint(2000), Map(OneMap("k", Uint(5)))>>)
MsgMessage == MessageWire(Bytes(Text("a")), PairA)
MsgForward == ForwardWire(Bytes(Text("a")), <<PairA, PairB>>)
MsgBadTag  == MessageWire(Uint(7), PairA)
MsgBadPair == ForwardWire(Bytes(Text("a")), <<Uint(9)>>)
PeerMsgs   == {MsgMessage, MsgForward, MsgBadTag, MsgBadPair}
Events ==
  {[ev |-> "msg", toks |-> m] : m \in PeerMsgs}
  \cup {[ev |-> "eof", toks |-> <<>>], [ev |-> "temp", toks |-> <<>>]}

Conns == 1..MaxConns
None  == [kind |-> "none", err |-> "", retval |-> <<>>]

\* -------------------------------------------------------------- state
VARIABLES
  clients,      \* ForwardInput.clients: the registry (set of connections)
  entries,      \* ForwardInput.entries
  listener,     \* "open" | "closed"
  run,          \* accept loop: "running" | "failed"
  pc,           \* per connection: position of its handler goroutine
  connOpen,     \* per connection: the socket is open on the server side
  stream,       \* per connection: transport events not yet read
  peerClosed,   \* per connection: the peer has sent end-of-stream
  sends,        \* transport events produced so far
  pending,      \* per connection: entries returned by decodeEntries
  sink,         \* per connection: batches given to Port().Emit
  consumed,     \* per connection: messages read by decodeEntries
  exitWhy,      \* per connection: why the loop was left
  discharges,   \* per connection: number of markDischarged calls
  spc,          \* Shutdown: "idle" | "iter" | "done"
  iterStart,    \* registry when Shutdown started to iterate
  closeLog,     \* Shutdown's conn.Close() calls, in order, with outcome
  crashed,      \* the process died of an unrecovered panic
  raced,        \* connections whose goroutine is at a write to the
                \* registry that another goroutine's write has overlapped
  cin,          \* codec runs: the input
  wire,         \* codec runs: bytes written by IkBench.Send
  cout,         \* codec runs: results per shape
  bparams,      \* ikb: count, multi and concurrency of the command line
  bpc,          \* ikb: position of the main goroutine
  exitStatus,   \* ikb: <<>> while the process runs, <<status>> once it exited
  received,     \* ikb: values main has taken from the sync channel
  worker        \* ikb: the goroutines started by Run, in order of their id

srvVars == <<clients, entries, listener, run, pc, connOpen, stream,
             peerClosed, sends, pending, sink, consumed, exitWhy,
             discharges, spc, iterStart, closeLog, crashed, float2uint,
             raced>>
codecVars == <<cin, wire, cout>>
benchVars == <<bparams, bpc, exitStatus, received, worker>>
vars == <<clients, entries, listener, run, pc, connOpen, stream,
          peerClosed, sends, pending, sink, consumed, exitWhy,
          discharges, spc, iterStart, closeLog, crashed, float2uint,
          raced, cin, wire, cout, bparams, bpc, exitStatus, received, worker>>

NoOut == [M |-> None, F |-> None, P |-> None, B |-> None]
IdleInput == [mode |-> "idle", tag |-> <<>>, items |-> <<>>]

\* newForwardInput: empty registry, entries = 0, listening
SrvInit ==
  /\ clients = {}
  /\ entries = 0
  /\ listener = "open"
  /\ run = "running"
  /\ pc = [c \in Conns |-> "idle"]
  /\ connOpen = [c \in Conns |-> FALSE]
  /\ stream = [c \in Conns |-> <<>>]
  /\ peerClosed = [c \in Conns |-> FALSE]
  /\ sends = 0
  /\ pending = [c \in Conns |-> <<>>]
  /\ sink = [c \in Conns |-> <<>>]
  /\ consumed = [c \in Conns |-> <<>>]
  /\ exitWhy = [c \in Conns |-> ""]
  /\ discharges = [c \in Conns |-> 0]
  /\ spc = "idle"
  /\ iterStart = {}
  /\ closeLog = <<>>
  /\ crashed = FALSE
  /\ float2uint \in OutOfRange
  /\ raced = {}

\* ikb not started
NoParams == [count |-> 0, multi |-> 0, concurrency |-> 0]
BenchStart ==
  /\ bpc = "main"
  /\ exitStatus = <<>>
  /\ received = 0
  /\ worker = <<>>

Init ==
  /\ SrvInit /\ cin = IdleInput /\ wire = <<>> /\ cout = NoOut
  /\ bparams = NoParams /\ BenchStart

CodecInit ==
  /\ SrvInit
  /\ cin \in FrameInputs \cup BenchInputs
  /\ wire = <<>>
  /\ cout = NoOut
  /\ bparams = NoParams /\ BenchStart

\* --------------------------------------------------------- codec runs
\* what a codec run leaves alone of the listener
srvRest == <<clients, listener, run, pc, connOpen, stream, peerClosed,
             sends, pending, sink, consumed, exitWhy, discharges, spc,
             iterStart, closeLog, crashed, float2uint, raced>>

\* input.entries after decodeEntries has returned r: on success it has
\* added len(retval) before it returns
Counted(r) ==
  IF r.kind = "ok" THEN AtomicAddInt64(entries, Len(r.retval)) ELSE entries

DecodeMessage ==
  /\ cin.mode = "frame" /\ cout.M = None
  /\ Len(cin.items) >= 1
  /\ cin.items[1].t = "slice" /\ Len(cin.items[1].e) = 2
  /\ \E toks \in {MessageWire(cin.tag, cin.items[1])} :
       \E r \in {decodeEntries(toks)} :
         /\ cout' = [cout EXCEPT !.M = r]
         /\ entries' = Counted(r)
  /\ UNCHANGED <<srvRest, benchVars, cin, wire>>

DecodeForward ==
  /\ cin.mode = "frame" /\ cout.F = None
  /\ \E toks \in {ForwardWire(cin.tag, cin.items)} :
       \E r \in {decodeEntries(toks)} :
         /\ cout' = [cout EXCEPT !.F = r]
         /\ entries' = Counted(r)
  /\ UNCHANGED <<srvRest, benchVars, cin, wire>>

DecodePackedForward ==
  /\ cin.mode = "frame" /\ cout.P = None
  /\ \E toks \in {PackedWire(cin.tag, cin.items)} :
       \E r \in {decodeEntries(toks)} :
         /\ cout' = [cout EXCEPT !.P = r]
         /\ entries' = Counted(r)
  /\ UNCHANGED <<srvRest, benchVars, cin, wire>>

\* IkBench.Send, bulk mode: encodeEntryBulk, then buf.WriteTo(conn)
SendBulk ==
  /\ cin.mode = "bench" /\ wire = <<>>
  /\ wire' = encodeEntryBulk(cin.tag, cin.items)
  /\ UNCHANGED <<srvVars, benchVars, cin, cout>>

DecodeBulk ==
  /\ cin.mode = "bench" /\ wire # <<>> /\ cout.B = None
  /\ \E r \in {decodeEntries(wire)} :
       /\ cout' = [cout EXCEPT !.B = r]
       /\ entries' = Counted(r)
  /\ UNCHANGED <<srvRest, benchVars, cin, wire>>

CodecNext ==
  \/ DecodeMessage
  \/ DecodeForward
  \/ DecodePackedForward
  \/ SendBulk
  \/ DecodeBulk

CodecSpec == CodecInit /\ [][CodecNext]_vars

\* ------------------------------------------------------ the listener
\* ForwardInput.Run: Accept, then newForwardClient (markCharged) in the
\* accepting goroutine, then the handler goroutine is started.  Accept
\* hands out the connections in order.
NextConn == CHOOSE c \in Conns : pc[c] = "idle" /\ \A d \in 1..(c - 1) : pc[d] # "idle"

\* the goroutines, named by their connection, that are at a write to
\* input.clients: the accepting goroutine at markCharged, a handler at
\* markDischarged
AtMap == {d \in Conns : pc[d] \in {"accepted", "discharge"}}

\* the write of connection c's goroutine overlaps another goroutine's
\* access to input.clients: Shutdown is in its range loop, another
\* goroutine is at its write, or one was and its write overlapped this one
Racing(c) ==
  \/ spc = "iter"
  \/ AtMap \ {c} # {}
  \/ c \in raced

\* raced after the write of connection c's goroutine
Overlapped(c) == (raced \cup AtMap) \ {c}

\* ForwardInput.Run up to the call of markCharged: Accept has returned a
\* connection and newForwardClient is building the client
RunAccept ==
  /\ ~crashed /\ run = "running" /\ listener = "open"
  /\ \A d \in Conns : pc[d] # "accepted"
  /\ \E c \in Conns : pc[c] = "idle"
  /\ \E c \in {NextConn} :
       /\ connOpen' = [connOpen EXCEPT ![c] = TRUE]
       /\ pc' = [pc EXCEPT ![c] = "accepted"]
  /\ UNCHANGED <<clients, entries, listener, run, stream, peerClosed, sends,
                 pending, sink, consumed, exitWhy, discharges, spc,
                 iterStart, closeLog, crashed, float2uint, raced, codecVars,
                 benchVars>>

\* markCharged in the accepting goroutine, then the handler goroutine is
\* started and Run returns ik.Continue.  On a racing write the runtime
\* may also detect the concurrent map access and end the process (fatal
\* error: concurrent map writes).
RunCharge(c) ==
  /\ ~crashed /\ pc[c] = "accepted"
  /\ \/ /\ clients' \in markCharged(clients, c, Racing(c))
        /\ pc' = [pc EXCEPT ![c] = "decode"]
        /\ raced' = Overlapped(c)
        /\ crashed' = crashed
     \/ /\ Racing(c)
        /\ crashed' = TRUE
        /\ UNCHANGED <<clients, pc, raced>>
  /\ UNCHANGED <<entries, listener, run, connOpen, stream, peerClosed, sends,
                 pending, sink, consumed, exitWhy, discharges, spc,
                 iterStart, closeLog, float2uint, codecVars,
                 benchVars>>

Run == RunAccept \/ \E c \in Conns : RunCharge(c)

\* Accept on the closed listener fails; Run logs and returns the error.
RunFail ==
  /\ ~crashed /\ run = "running" /\ listener = "closed"
  /\ \A d \in Conns : pc[d] # "accepted"
  /\ run' = "failed"
  /\ UNCHANGED <<clients, entries, listener, pc, connOpen, stream,
                 peerClosed, sends, pending, sink, consumed, exitWhy,
                 discharges, spc, iterStart, closeLog, crashed, float2uint, raced, codecVars,
                 benchVars>>

\* The transport delivers one more event on an open connection: a message,
\* the peer's end-of-stream, or a temporary error of the read.
PeerSend(c, e) ==
  /\ ~crashed /\ pc[c] \in {"decode", "emit"}
  /\ connOpen[c] /\ ~peerClosed[c]
  /\ sends < MaxSends
  /\ stream' = [stream EXCEPT ![c] = Append(@, e)]
  /\ peerClosed' = [peerClosed EXCEPT ![c] = (e.ev = "eof")]
  /\ sends' = sends + 1
  /\ UNCHANGED <<clients, entries, listener, run, pc, connOpen, pending,
                 sink, consumed, exitWhy, discharges, spc, iterStart,
                 closeLog, crashed, float2uint, raced, codecVars,
                 benchVars>>

\* conn.Close(): fails when the socket is already closed
CloseFails(c) == ~connOpen[c]

\* a loop that is left on every decode error
OnDecodeError_break(temporary) == "close"

\* handle's branch on the error of decodeEntries: continue when it is a
\* net.Error that reports Temporary(), break otherwise
OnDecodeError(temporary) == IF temporary THEN "decode" ELSE "close"

\* forwardClient.handle, the call of decodeEntries and what the loop does
\* with its outcome.  The read blocks while the socket is open and nothing
\* has arrived; on a socket closed on this side it fails at once with a
\* non-temporary error.
HandleReadClosed(c) ==
  /\ ~crashed /\ pc[c] = "decode"
  /\ ~connOpen[c]
  /\ pc' = [pc EXCEPT ![c] = OnDecodeError(FALSE)]
  /\ exitWhy' = [exitWhy EXCEPT ![c] = "closed"]
  /\ UNCHANGED <<clients, entries, listener, run, connOpen, stream,
                 peerClosed, sends, pending, sink, consumed, discharges,
                 spc, iterStart, closeLog, crashed, float2uint, raced, codecVars,
                 benchVars>>

\* err_.Temporary(): log and continue
HandleTemporary(c) ==
  /\ ~crashed /\ pc[c] = "decode"
  /\ connOpen[c] /\ stream[c] # <<>>
  /\ Head(stream[c]).ev = "temp"
  /\ stream' = [stream EXCEPT ![c] = Tail(@)]
  /\ pc' = [pc EXCEPT ![c] = OnDecodeError(TRUE)]
  /\ UNCHANGED <<clients, entries, listener, run, connOpen, peerClosed,
                 sends, pending, sink, consumed, exitWhy, discharges, spc,
                 iterStart, closeLog, crashed, float2uint, raced, codecVars,
                 benchVars>>

\* err == io.EOF: log and break
HandleEOF(c) ==
  /\ ~crashed /\ pc[c] = "decode"
  /\ connOpen[c] /\ stream[c] # <<>>
  /\ Head(stream[c]).ev = "eof"
  /\ stream' = [stream EXCEPT ![c] = Tail(@)]
  /\ pc' = [pc EXCEPT ![c] = OnDecodeError(FALSE)]
  /\ exitWhy' = [exitWhy EXCEPT ![c] = "eof"]
  /\ UNCHANGED <<clients, entries, listener, run, connOpen, peerClosed,
                 sends, pending, sink, consumed, discharges, spc, iterStart,
                 closeLog, crashed, float2uint, raced, codecVars,
                 benchVars>>

\* a message was read: decodeEntries returns entries (and has added their
\* number to input.entries), returns an error (break), or panics
HandleDecode(c) ==
  /\ ~crashed /\ pc[c] = "decode"
  /\ connOpen[c] /\ stream[c] # <<>>
  /\ Head(stream[c]).ev = "msg"
  /\ stream' = [stream EXCEPT ![c] = Tail(@)]
  /\ consumed' = [consumed EXCEPT ![c] = Append(@, Head(stream[c]).toks)]
  /\ \E r \in {decodeEntries(Head(stream[c]).toks)} :
       \/ /\ r.kind = "ok"
          /\ entries' = AtomicAddInt64(entries, Len(r.retval))
          /\ pending' = [pending EXCEPT ![c] = r.retval]
          /\ pc' = [pc EXCEPT ![c] = "emit"]
          /\ UNCHANGED <<exitWhy, crashed>>
       \/ /\ r.kind = "err"
          /\ pc' = [pc EXCEPT ![c] = OnDecodeError(FALSE)]
          /\ exitWhy' = [exitWhy EXCEPT ![c] = "error"]
          /\ UNCHANGED <<entries, pending, crashed>>
       \/ /\ r.kind = "panic"       \* nothing recovers: the process exits
          /\ crashed' = TRUE
          /\ UNCHANGED <<entries, pending, pc, exitWhy>>
  /\ UNCHANGED <<clients, listener, run, connOpen, peerClosed, sends, sink,
                 discharges, spc, iterStart, closeLog, float2uint, raced, codecVars,
                 benchVars>>

\* a sink call that takes the batch twice
Emit_twice(batches, batch) == batches \o <<batch, batch>>

\* a sink call that puts the newest batch first
Emit_prepend(batches, batch) == <<batch>> \o batches

\* c.input.Port().Emit(entries)
Emit(batches, batch) == Append(batches, batch)

HandleEmit(c) ==
  /\ ~crashed /\ pc[c] = "emit"
  /\ sink' = [sink EXCEPT ![c] = Emit(@, pending[c])]
  /\ pending' = [pending EXCEPT ![c] = <<>>]
  /\ pc' = [pc EXCEPT ![c] = "decode"]
  /\ UNCHANGED <<clients, entries, listener, run, connOpen, stream,
                 peerClosed, sends, consumed, exitWhy, discharges, spc,
                 iterStart, closeLog, crashed, float2uint, raced, codecVars,
                 benchVars>>

\* after the loop: c.conn.Close(), its error only logged
HandleClose(c) ==
  /\ ~crashed /\ pc[c] = "close"
  /\ connOpen' = [connOpen EXCEPT ![c] = FALSE]
  /\ pc' = [pc EXCEPT ![c] = "discharge"]
  /\ UNCHANGED <<clients, entries, listener, run, stream, peerClosed, sends,
                 pending, sink, consumed, exitWhy, discharges, spc,
                 iterStart, closeLog, crashed, float2uint, raced, codecVars,
                 benchVars>>

\* c.input.markDischarged(c); the goroutine ends
HandleDischarge(c) ==
  /\ ~crashed /\ pc[c] = "discharge"
  /\ \/ /\ clients' \in markDischarged(clients, c, Racing(c))
        /\ discharges' = [discharges EXCEPT ![c] = @ + 1]
        /\ pc' = [pc EXCEPT ![c] = "done"]
        /\ raced' = Overlapped(c)
        /\ crashed' = crashed
     \/ /\ Racing(c)
        /\ crashed' = TRUE
        /\ UNCHANGED <<clients, discharges, pc, raced>>
  /\ UNCHANGED <<entries, listener, run, connOpen, stream, peerClosed, sends,
                 pending, sink, consumed, exitWhy, spc, iterStart, closeLog,
                 float2uint, codecVars,
                 benchVars>>

Handle(c) ==
  \/ HandleReadClosed(c) \/ HandleTemporary(c) \/ HandleEOF(c)
  \/ HandleDecode(c) \/ HandleEmit(c)
  \/ HandleClose(c) \/ HandleDischarge(c)

\* ForwardInput.Shutdown.  The range over the clients map yields every key
\* that was in the map when the loop started and is still there; a key
\* inserted while the loop runs may be yielded or skipped.
Visited == {closeLog[i].conn : i \in 1..Len(closeLog)}

\* Shutdown is called, directly or through Dispose; it can be called
\* again once a call has returned
ShutdownBegin ==
  /\ ~crashed /\ spc \in {"idle", "done"}
  /\ spc' = "iter"
  /\ iterStart' = clients
  /\ closeLog' = <<>>
  /\ UNCHANGED <<clients, entries, listener, run, pc, connOpen, stream,
                 peerClosed, sends, pending, sink, consumed, exitWhy,
                 discharges, crashed, float2uint, raced, codecVars,
                 benchVars>>

ShutdownClose(c) ==
  /\ ~crashed /\ spc = "iter"
  /\ c \in clients \ Visited
  /\ closeLog' = Append(closeLog, [conn |-> c, err |-> CloseFails(c)])
  /\ connOpen' = [connOpen EXCEPT ![c] = FALSE]
  /\ UNCHANGED <<clients, entries, listener, run, pc, stream, peerClosed,
                 sends, pending, sink, consumed, exitWhy, discharges, spc,
                 iterStart, crashed, float2uint, raced, codecVars,
                 benchVars>>

\* a loop that is left at the first failed conn.Close()
RangeDone_stopOnError(reg, start, visited) ==
  \/ (reg \cap start) \subseteq visited
  \/ \E i \in 1..Len(closeLog) : closeLog[i].err

\* the loop is over when no key of the starting map is left to yield
RangeDone(reg, start, visited) == (reg \cap start) \subseteq visited

\* return input.listener.Close()
ShutdownCloseListener ==
  /\ ~crashed /\ spc = "iter"
  /\ RangeDone(clients, iterStart, Visited)
  /\ listener' = "closed"
  /\ spc' = "done"
  /\ UNCHANGED <<clients, entries, run, pc, connOpen, stream, peerClosed,
                 sends, pending, sink, consumed, exitWhy, discharges,
                 iterStart, closeLog, crashed, float2uint, raced, codecVars,
                 benchVars>>

Shutdown ==
  \/ ShutdownBegin
  \/ \E c \in Conns : ShutdownClose(c)
  \/ ShutdownCloseListener

Next ==
  \/ RunAccept
  \/ \E c \in Conns : RunCharge(c)
  \/ RunFail
  \/ \E c \in Conns, e \in Events : PeerSend(c, e)
  \/ \E c \in Conns : HandleReadClosed(c)
  \/ \E c \in Conns : HandleTemporary(c)
  \/ \E c \in Conns : HandleEOF(c)
  \/ \E c \in Conns : HandleDecode(c)
  \/ \E c \in Conns : HandleEmit(c)
  \/ \E c \in Conns : HandleClose(c)
  \/ \E c \in Conns : HandleDischarge(c)
  \/ ShutdownBegin
  \/ \E c \in Conns : ShutdownClose(c)
  \/ ShutdownCloseListener

Spec == Init /\ [][Next]_vars

\* The runs in which the peers send no message: they stay silent, close
\* their end, or the read meets temporary errors.  The Go scheduler runs
\* every runnable goroutine: a handler that can take a step takes it, and
\* so does Shutdown once it has been called.
QuietEvents == {e \in Events : e.ev # "msg"}

QuietNext ==
  \/ RunAccept
  \/ \E c \in Conns : RunCharge(c)
  \/ RunFail
  \/ \E c \in Conns, e \in QuietEvents : PeerSend(c, e)
  \/ \E c \in Conns : HandleReadClosed(c)
  \/ \E c \in Conns : HandleTemporary(c)
  \/ \E c \in Conns : HandleEOF(c)
  \/ \E c \in Conns : HandleClose(c)
  \/ \E c \in Conns : HandleDischarge(c)
  \/ ShutdownBegin
  \/ \E c \in Conns : ShutdownClose(c)
  \/ ShutdownCloseListener

LiveSpec ==
  /\ Init /\ [][QuietNext]_vars
  /\ \A c \in Conns : WF_vars(Handle(c))
  /\ \A c \in Conns : WF_vars(RunCharge(c))
  /\ WF_vars((\E c \in Conns : ShutdownClose(c)) \/ ShutdownCloseListener)

\* ------------------------------------------- ikb, the load generator
\* main passes MaxRetryCount: 5 to Run
MaxRetryCount == 5

\* Go's integer / and %: the quotient is truncated towards zero and the
\* remainder has the sign of the dividend (b is not 0)
Abs(x) == IF x < 0 THEN -x ELSE x
GoDiv(a, b) ==
  IF (a < 0) = (b < 0) THEN Abs(a) \div Abs(b) ELSE -(Abs(a) \div Abs(b))
GoMod(a, b) == a - b * GoDiv(a, b)

numberOfAttempts(p)        == GoDiv(p.count, p.multi)
numberOfAttemptsPerProc(p) == GoDiv(numberOfAttempts(p), p.concurrency)
remainder(p)               == GoMod(numberOfAttempts(p), p.concurrency)

\* the extra attempts given to the last workers instead of the first
attemptsOf_last(p, id) ==
  numberOfAttemptsPerProc(p)
    + (IF id >= p.concurrency - remainder(p) THEN 1 ELSE 0)

\* the attempts argument of the goroutine started for id:
\* numberOfAttemptsPerProc + r, with r = 1 if id < remainder
attemptsOf(p, id) ==
  numberOfAttemptsPerProc(p) + (IF id < remainder(p) THEN 1 ELSE 0)

\* a validation without the test that count is a multiple of multi
Valid_anyCount(p) == numberOfAttempts(p) >= p.concurrency

\* main's two tests before NewIkBench().Run(...); p.multi is not 0
Valid(p) ==
  /\ GoMod(p.count, p.multi) = 0
  /\ ~(numberOfAttempts(p) < p.concurrency)

\* a budget that is over one failure earlier
RetryExceeded_atZero(retryCount) == retryCount <= 0

\* if retryCount < 0 { log.Fatal(...) }
RetryExceeded(retryCount) == retryCount < 0

\* a main loop that takes one value less from the channel
JoinCount_short(p) == p.concurrency - 1

\* for i := 0; i < params.Concurrency; i += 1 { <-sync }
JoinCount(p) == p.concurrency

\* go func(id, attempts): retryCount := params.MaxRetryCount, then the
\* dial loop.  dials, dialFails, sent, temps, why and signals record what
\* the goroutine has done; the code keeps pc, retryCount, i and conn.
NewWorker(attempts) ==
  [pc |-> "dial", attempts |-> attempts, retryCount |-> MaxRetryCount,
   i |-> 0, dials |-> 0, dialFails |-> 0, sent |-> 0, temps |-> FALSE,
   conn |-> "none", why |-> "", signals |-> 0]

\* net.Dial succeeded: defer conn.Close(), then the attempts loop (left at
\* once when there is no attempt to make)
DialOk(wk) ==
  [wk EXCEPT !.dials = @ + 1, !.conn = "open",
             !.pc = IF 0 < wk.attempts THEN "send" ELSE "signal"]

\* net.Dial failed: retryCount -= 1; log.Fatal once it is negative,
\* otherwise continue
DialFailed(wk) ==
  [wk EXCEPT !.dials = @ + 1, !.dialFails = @ + 1, !.retryCount = @ - 1,
             !.pc = IF RetryExceeded(wk.retryCount - 1) THEN "fatal"
                    ELSE "dial"]

\* Send returned nil: break out of the retry loop, i += 1
SendOk(wk) ==
  [wk EXCEPT !.sent = @ + 1, !.i = @ + 1,
             !.pc = IF wk.i + 1 < wk.attempts THEN "send" ELSE "signal"]

\* a temporary failure that uses up the attempt
SendTemporary_counted(wk) ==
  [wk EXCEPT !.temps = TRUE, !.i = @ + 1,
             !.pc = IF wk.i + 1 < wk.attempts THEN "send" ELSE "signal"]

\* err_.Temporary(): continue, the same Send again
SendTemporary(wk) == [wk EXCEPT !.temps = TRUE]

\* a non-temporary failure after which the worker dials again
SendError_redial(wk) ==
  [wk EXCEPT !.conn = "closed", !.why = "error", !.pc = "dial"]

\* a net.Error that is not temporary: conn.Close(), break outer
SendError(wk) ==
  [wk EXCEPT !.conn = "closed", !.why = "error", !.pc = "signal"]

\* an error that is no net.Error: break outer, the connection left to
\* the deferred Close
SendOther(wk) == [wk EXCEPT !.why = "other", !.pc = "signal"]

SendOutcomes == {"ok", "temporary", "error", "other"}

\* sync <- id was taken by main
Synced(wk) == [wk EXCEPT !.signals = @ + 1, !.pc = "return"]

\* the goroutine returns and its deferred conn.Close() runs
Returned(wk) ==
  [wk EXCEPT !.pc = "done",
             !.conn = IF wk.conn = "none" THEN "none" ELSE "closed"]

\* main, from the parsed command line to the call of Run.  The % of the
\* first test panics when multi is 0.
Main ==
  /\ exitStatus = <<>> /\ bpc = "main"
  /\ IF bparams.multi = 0
     THEN bpc' = "panicked" /\ exitStatus' = <<2>>
     ELSE IF ~Valid(bparams)
          THEN bpc' = "rejected" /\ exitStatus' = <<255>>
          ELSE bpc' = "run" /\ exitStatus' = exitStatus
  /\ UNCHANGED <<srvVars, codecVars, bparams, received, worker>>

\* IkBench.Run up to make(chan int); the division by Concurrency panics
\* when it is 0.  With a negative Concurrency the loop that starts the
\* goroutines has no turn and main is at the receive loop at once.
IkBenchRun ==
  /\ exitStatus = <<>> /\ bpc = "run"
  /\ IF bparams.concurrency = 0
     THEN bpc' = "panicked" /\ exitStatus' = <<2>>
     ELSE /\ bpc' = IF 0 < bparams.concurrency THEN "spawn" ELSE "join"
          /\ exitStatus' = exitStatus
  /\ UNCHANGED <<srvVars, codecVars, bparams, received, worker>>

\* one turn of the loop that starts the goroutines; after the last one
\* main is at the loop that receives from sync
Spawn ==
  /\ exitStatus = <<>> /\ bpc = "spawn"
  /\ Len(worker) < bparams.concurrency
  /\ worker' = Append(worker, NewWorker(attemptsOf(bparams, Len(worker))))
  /\ bpc' = IF Len(worker) + 1 < bparams.concurrency THEN "spawn" ELSE "join"
  /\ UNCHANGED <<srvVars, codecVars, bparams, exitStatus, received>>

\* net.Dial, with either outcome; log.Fatal ends the process with status 1
WorkerDial(w, ok) ==
  /\ exitStatus = <<>> /\ worker[w].pc = "dial"
  /\ \E wk \in {IF ok THEN DialOk(worker[w]) ELSE DialFailed(worker[w])} :
       /\ worker' = [worker EXCEPT ![w] = wk]
       /\ exitStatus' = IF wk.pc = "fatal" THEN <<1>> ELSE exitStatus
  /\ UNCHANGED <<srvVars, codecVars, bparams, bpc, received>>

\* ikb.Send(conn, params) and the branch on its error.  With a negative
\* NumberOfRecordsSentAtOnce the make([]Record, n) of Send panics and
\* the process ends.
WorkerSend(w, outcome) ==
  /\ exitStatus = <<>> /\ worker[w].pc = "send"
  /\ IF bparams.multi < 0
     THEN /\ worker' = [worker EXCEPT ![w].pc = "panicked"]
          /\ exitStatus' = <<2>>
     ELSE /\ worker' = [worker EXCEPT ![w] =
                          CASE outcome = "ok"        -> SendOk(@)
                            [] outcome = "temporary" -> SendTemporary(@)
                            [] outcome = "error"     -> SendError(@)
                            [] OTHER                 -> SendOther(@)]
          /\ exitStatus' = exitStatus
  /\ UNCHANGED <<srvVars, codecVars, bparams, bpc, received>>

\* sync is unbuffered: sync <- id and one <-sync of main happen together
WorkerSync(w) ==
  /\ exitStatus = <<>> /\ worker[w].pc = "signal"
  /\ bpc = "join" /\ received < JoinCount(bparams)
  /\ worker' = [worker EXCEPT ![w] = Synced(@)]
  /\ received' = received + 1
  /\ UNCHANGED <<srvVars, codecVars, bparams, bpc, exitStatus>>

\* after the send on sync the goroutine function returns
WorkerReturn(w) ==
  /\ exitStatus = <<>> /\ worker[w].pc = "return"
  /\ worker' = [worker EXCEPT ![w] = Returned(@)]
  /\ UNCHANGED <<srvVars, codecVars, bparams, bpc, exitStatus, received>>

\* the receive loop is over: Run returns, main returns, status 0; the
\* process ends whatever its goroutines are doing
BenchReturn ==
  /\ exitStatus = <<>> /\ bpc = "join"
  /\ ~(received < JoinCount(bparams))
  /\ bpc' = "returned"
  /\ exitStatus' = <<0>>
  /\ UNCHANGED <<srvVars, codecVars, bparams, received, worker>>

\* command lines: count, multi (-multi) and concurrency (-concurrent)
MaxRecords     == 3
MaxBatch       == 2
MaxConcurrency == 2
Params(c, m, k) == [count |-> c, multi |-> m, concurrency |-> k]
BenchConfigs ==
  {Params(c, m, k) : c \in 0..MaxRecords, m \in 0..MaxBatch,
                     k \in -1..MaxConcurrency}
  \cup {Params(100, 7, 1), Params(-2, -1, 1), Params(-3, 2, -2)}

BenchInit ==
  /\ SrvInit /\ cin = IdleInput /\ wire = <<>> /\ cout = NoOut
  /\ bparams \in BenchConfigs
  /\ BenchStart

BenchNext ==
  \/ Main
  \/ IkBenchRun
  \/ Spawn
  \/ \E w \in DOMAIN worker, ok \in BOOLEAN : WorkerDial(w, ok)
  \/ \E w \in DOMAIN worker, outcome \in SendOutcomes : WorkerSend(w, outcome)
  \/ \E w \in DOMAIN worker : WorkerSync(w)
  \/ \E w \in DOMAIN worker : WorkerReturn(w)
  \/ BenchReturn

BenchSpec == BenchInit /\ [][BenchNext]_vars

\* The Go scheduler runs every runnable goroutine: main goes on to its
\* receive loop, and a send on sync that main is ready to take is taken.
\* Nothing forces a dial or a Send to succeed.
BenchLive ==
  /\ BenchInit /\ [][BenchNext]_vars
  /\ WF_vars(Main) /\ WF_vars(IkBenchRun) /\ WF_vars(Spawn)
  /\ WF_vars(BenchReturn)
  /\ \A w \in 1..MaxConcurrency : WF_vars(w \in DOMAIN worker /\ WorkerSync(w))

\* Run's partition of the work alone: main and the loop that starts the
\* goroutines, over a wider range of command lines
MaxPartRecords == 12
MaxPartProcs   == 4
PartConfigs ==
  {Params(c, m, k) : c \in 0..MaxPartRecords, m \in 0..MaxBatch,
                     k \in -1..MaxPartProcs}
  \cup {Params(100, 10, 3)}

PartInit ==
  /\ SrvInit /\ cin = IdleInput /\ wire = <<>> /\ cout = NoOut
  /\ bparams \in PartConfigs
  /\ BenchStart

PartNext == Main \/ IkBenchRun \/ Spawn

PartSpec == PartInit /\ [][PartNext]_vars

\* ---------------------------------------------------- listener claims
RECURSIVE SumLen(_)
SumLen(q) == IF q = <<>> THEN 0 ELSE Len(Head(q)) + SumLen(Tail(q))

Decoded(m)   == decodeEntries(m).kind = "ok"
Malformed(m) == ~Decoded(m)

\* the entry sequences of the successfully decoded messages of q, in order
RECURSIVE Batches(_)
Batches(q) ==
  IF q = <<>> THEN <<>>
  ELSE IF Decoded(Head(q))
       THEN <<decodeEntries(Head(q)).retval>> \o Batches(Tail(q))
       ELSE Batches(Tail(q))

RECURSIVE SumOver(_, _)
SumOver(f, S) ==
  IF S = {} THEN 0
  ELSE LET x == CHOOSE y \in S : TRUE IN f[x] + SumOver(f, S \ {x})

\* C1: whatever the number of handlers and the interleaving of their
\* decode steps, totalEntries is the sum of the entry counts k1, k2, ... of
\* the frames decoded successfully so far on all connections, and no step
\* decreases totalEntries.
C1_TotalEntriesIsSum ==
  /\ [](entries = SumOver([c \in Conns |-> SumLen(Batches(consumed[c]))], Conns))
  /\ [][entries' >= entries]_vars

C1_Witness ==
  /\ pc[1] = "emit" /\ pc[2] = "emit"
  /\ Len(pending[1]) = 2 /\ Len(pending[2]) = 1
  /\ entries = 3

\* C2: a malformed frame (bad tag, unsupported second element, data that
\* is no map, bulk element that is no [timestamp, data] pair) makes the
\* decode return an error value and ends its own connection only: the
\* handler goes on to close and deregister, the process keeps running.
C2_MalformedEndsOwnConnectionOnly ==
  \A c \in Conns :
    (consumed[c] # <<>> /\ Malformed(consumed[c][Len(consumed[c])])) =>
      /\ ~crashed
      /\ pc[c] \in {"close", "discharge", "done"}

\* C3: a handler whose loop has ended (end-of-stream, non-temporary error,
\* socket closed by Shutdown) first closes its connection and then removes
\* its registry entry, once; from then on it is Closed for good and
\* neither reads a frame nor emits nor adds to totalEntries.
C3_ExitClosesThenDeregistersOnce ==
  /\ [](\A c \in Conns :
          /\ exitWhy[c] # "" => pc[c] \in {"close", "discharge", "done"}
          /\ pc[c] \in {"discharge", "done"} => ~connOpen[c]
          /\ pc[c] = "done" => c \notin clients
          /\ discharges[c] = IF pc[c] = "done" THEN 1 ELSE 0)
  /\ [][\A c \in Conns :
          /\ (pc'[c] = "discharge" /\ pc[c] # "discharge") => pc[c] = "close"
          /\ (pc'[c] = "done" /\ pc[c] # "done") =>
               (pc[c] = "discharge" /\ c \in clients /\ c \notin clients')
          /\ pc[c] = "done" =>
               /\ pc'[c] = "done"
               /\ consumed'[c] = consumed[c]
               /\ pending'[c] = pending[c]
               /\ sink'[c] = sink[c]]_vars

\* C8: on one connection the sink gets one batch per successfully decoded
\* frame, in the order the frames were decoded, each batch holding the
\* frame's entries in decode order; a frame whose decode failed adds
\* nothing.  (The batch of the frame just decoded is still in the
\* handler's hands while it is about to call Emit.)
C8_OneBatchPerFrameInOrder ==
  \A c \in Conns :
    LET expected == Batches(consumed[c]) IN
    IF pc[c] = "emit"
    THEN /\ expected # <<>>
         /\ sink[c] = SubSeq(expected, 1, Len(expected) - 1)
         /\ pending[c] = expected[Len(expected)]
    ELSE sink[c] = expected

C8_Witness ==
  /\ Len(sink[1]) = 2 /\ Len(consumed[1]) = 2
  /\ Len(sink[1][1]) = 1 /\ Len(sink[1][2]) = 2

\* C9: a call of Shutdown calls Close on every connection of the
\* registry it iterates (the entries present when it starts, unless their
\* own handler has deregistered them meanwhile); its Close calls are made
\* in its loop, the listening socket is closed only when the loop is over,
\* and a Close that fails stops neither the remaining Close calls nor the
\* closing of the listener.
C9_ShutdownClosesAllThenListener ==
  /\ [](spc = "done" =>
          /\ listener = "closed"
          /\ \A c \in iterStart : c \in Visited \/ pc[c] = "done")
  /\ [](listener = "closed" => spc # "idle")
  /\ [][Len(closeLog') > Len(closeLog) =>
          (spc = "iter" /\ spc' = "iter" /\ listener' = listener)]_vars
  /\ [][listener' # listener => (spc = "iter" /\ spc' = "done")]_vars

C9_Witness ==
  /\ spc = "done" /\ listener = "closed"
  /\ Len(closeLog) = 2
  /\ closeLog[1].err /\ ~closeLog[2].err

\* C10: once Shutdown has been called, every handler -- blocked in a read
\* or registered while Shutdown was running -- gets an I/O error, leaves
\* through its error path and deregisters: the registry becomes empty.
C10_ShutdownEmptiesRegistry ==
  (spc # "idle") ~> (clients = {} \/ crashed)

\* C18: a decode that fails with a temporary error leaves the handler
\* Active: the step that takes the error off the transport keeps the
\* connection open and registered, changes neither totalEntries nor what
\* the sink has got, and leaves the handler at the start of the next
\* decode; this is so for every such error, however many came before.
C18_TemporaryErrorKeepsHandlerActive ==
  [][\A c \in Conns :
       (/\ pc[c] = "decode" /\ connOpen[c] /\ stream[c] # <<>>
        /\ Head(stream[c]).ev = "temp"
        /\ stream'[c] = Tail(stream[c])) =>
         /\ pc'[c] = "decode"
         /\ connOpen'[c]
         /\ clients' = clients
         /\ entries' = entries
         /\ sink' = sink /\ pending' = pending
         /\ exitWhy'[c] = ""]_vars

C18_Witness ==
  /\ pc[1] = "decode" /\ connOpen[1] /\ 1 \in clients
  /\ pc[2] = "idle"
  /\ sends = MaxSends /\ stream[1] = <<>>
  /\ consumed[1] = <<>> /\ ~peerClosed[1]

\* C19: the accesses to the registry never overlap: while Shutdown is
\* iterating over it, no markCharged and no markDischarged changes it, so
\* the registry is still the one the iteration started with.
C19_RegistryAccessSerialized ==
  (spc = "iter") => (clients = iterStart)

SinkTotal == SumOver([c \in Conns |-> SumLen(sink[c])], Conns)
InHand    == SumOver([c \in Conns |-> Len(pending[c])], Conns)

\* C20: the number of entries the sink has got is at most totalEntries;
\* what is missing is, for each handler between decodeEntries and Emit,
\* the entry count of the one frame it has just decoded; when every
\* handler is blocked in a read or Closed the two numbers are equal.
C20_SinkTrailsTotalByFramesInHand ==
  /\ SinkTotal <= entries
  /\ entries - SinkTotal = InHand
  /\ \A c \in Conns :
       IF pc[c] = "emit"
       THEN pending[c] = Batches(consumed[c])[Len(Batches(consumed[c]))]
       ELSE pending[c] = <<>>
  /\ (\A c \in Conns : \/ pc[c] \in {"idle", "done"}
                       \/ pc[c] = "decode" /\ stream[c] = <<>>)
       => SinkTotal = entries

C20_Witness ==
  /\ pc[1] = "emit" /\ Len(pending[1]) = 2
  /\ pc[2] = "decode" /\ Len(sink[2]) = 1 /\ Len(sink[2][1]) = 1
  /\ entries = 3 /\ SinkTotal = 1

\* ------------------------------------------------------ codec claims
RECURSIVE HasBytes(_)
HasBytes(v) ==
  CASE v.t = "bytes" -> TRUE
    [] v.t = "slice" -> \E i \in 1..Len(v.e) : HasBytes(v.e[i])
    [] v.t = "map"   -> \E key \in DOMAIN v.m : HasBytes(v.m[key])
    [] OTHER         -> FALSE

Normalized(result) ==
  result.kind = "ok" =>
    \A i \in 1..Len(result.retval) : ~HasBytes(Map(result.retval[i].Data))

\* C4: every entry produced for the sink is normalized -- no []byte value
\* is left anywhere inside its data, whatever the frame shape (Message
\* with uint64 or float64 timestamp, Forward, PackedForward) and however
\* deep the []byte sits in maps or slices.
C4_EntriesNormalized ==
  Normalized(cout.M) /\ Normalized(cout.F) /\ Normalized(cout.P)

\* w is v with some []byte values turned into strings of the same content
RECURSIVE SameUpToText(_, _)
SameUpToText(v, w) ==
  CASE v.t = "bytes" -> w.t \in {"bytes", "string"} /\ w.s = v.s
    [] v.t = "slice" -> /\ w.t = "slice" /\ Len(w.e) = Len(v.e)
                        /\ \A i \in 1..Len(v.e) : SameUpToText(v.e[i], w.e[i])
    [] v.t = "map"   -> /\ w.t = "map" /\ DOMAIN w.m = DOMAIN v.m
                        /\ \A key \in DOMAIN v.m : SameUpToText(v.m[key], w.m[key])
    [] OTHER         -> w.t = v.t /\ w = v

ValidPair(x) ==
  /\ x.t = "slice" /\ Len(x.e) = 2
  /\ x.e[1].t = "uint64" /\ x.e[2].t = "map"
ValidBulk(in) ==
  /\ in.mode = "frame" /\ in.tag.t = "bytes"
  /\ \A i \in 1..Len(in.items) : ValidPair(in.items[i])

\* C5: a valid Forward frame with tag T and N pairs decodes to exactly N
\* entries; the i-th entry has the i-th pair's timestamp and data (the
\* data being the pair's map, its []byte values read as text) and tag T.
C5_ForwardInOrder ==
  (cout.F # None /\ ValidBulk(cin)) =>
    /\ cout.F.kind = "ok"
    /\ Len(cout.F.retval) = Len(cin.items)
    /\ \A i \in 1..Len(cin.items) :
         /\ cout.F.retval[i].Tag = cin.tag.s
         /\ cout.F.retval[i].Timestamp = cin.items[i].e[1].n
         /\ SameUpToText(cin.items[i].e[2], Map(cout.F.retval[i].Data))

C5_Witness ==
  /\ cout.F # None /\ ValidBulk(cin) /\ Len(cin.items) = 2
  /\ cin.items[1].e[1].n # cin.items[2].e[1].n
  /\ cin.items[1].e[2] # cin.items[2].e[2]

\* the entries a finished decode has returned
EntriesOf(r) == IF r.kind = "ok" THEN Len(r.retval) ELSE 0

\* C6: the PackedForward frame wrapping a sequence of pairs decodes to the
\* same outcome (success, error or panic), the same entries and hence the
\* same increment of the entry counter as the Forward frame carrying the
\* same pairs inline.
C6_PackedSameAsForward ==
  /\ (cout.F # None /\ cout.P # None) => cout.P = cout.F
  /\ entries = EntriesOf(cout.M) + EntriesOf(cout.F)
                 + EntriesOf(cout.P) + EntriesOf(cout.B)

C6_Witness ==
  /\ cout.F # None /\ cout.P # None
  /\ cout.P.kind = "ok" /\ Len(cout.P.retval) = 2
  /\ cout.P.retval[1] # cout.P.retval[2]

\* C7: what encodeEntryBulk writes for a tag and a batch of records is
\* decoded by decodeEntries into entries with that tag and the records'
\* timestamps and data, in the same order.
C7_BulkRoundTrip ==
  (cin.mode = "bench" /\ cout.B # None) =>
    /\ cout.B.kind = "ok"
    /\ Len(cout.B.retval) = Len(cin.items)
    /\ \A i \in 1..Len(cin.items) :
         /\ cout.B.retval[i].Tag = cin.tag
         /\ cout.B.retval[i].Timestamp = cin.items[i].Timestamp
         /\ cout.B.retval[i].Data = cin.items[i].Data

\* --------------------------------------------- load generator claims
RECURSIVE SumAttempts(_)
SumAttempts(ws) ==
  IF ws = <<>> THEN 0 ELSE Head(ws).attempts + SumAttempts(Tail(ws))

Loads == [w \in DOMAIN worker |-> worker[w].attempts]

\* the goroutine with id w - 1, as one not yet running before it is started
Wk(w) ==
  IF w \in DOMAIN worker THEN worker[w]
  ELSE [NewWorker(0) EXCEPT !.pc = "idle"]

\* C11: with attempts = count / multi and a positive concurrency, the
\* worker with id i (0 <= i < concurrency) is started with floor(attempts / concurrency) attempts,
\* plus one when i < attempts mod concurrency; once all are started the
\* loads sum to attempts and any two differ by at most 1; count=100,
\* multi=10, concurrency=3 gives the loads 4, 3, 3.
C11_WorkPartition ==
  bparams.concurrency > 0 =>
  /\ \A w \in DOMAIN worker :
       worker[w].attempts =
         ((bparams.count \div bparams.multi) \div bparams.concurrency)
         + (IF w - 1 < (bparams.count \div bparams.multi) % bparams.concurrency
            THEN 1 ELSE 0)
  /\ bpc = "join" =>
       /\ Len(worker) = bparams.concurrency
       /\ SumAttempts(worker) = bparams.count \div bparams.multi
       /\ \A v, w \in DOMAIN worker :
            worker[v].attempts - worker[w].attempts <= 1
       /\ bparams = Params(100, 10, 3) => Loads = <<4, 3, 3>>

C11_Witness ==
  /\ bparams = Params(100, 10, 3) /\ bpc = "join"
  /\ Loads = <<4, 3, 3>>

\* a command line main has to refuse (multi is not 0)
Invalid(p) ==
  /\ p.multi # 0
  /\ \/ p.multi * GoDiv(p.count, p.multi) # p.count
     \/ GoDiv(p.count, p.multi) < p.concurrency

\* C12: with count no multiple of multi, or count / multi smaller than the
\* concurrency, main never gets to Run: no worker is started, nothing is
\* dialed, and once main has acted the process has exited with a status
\* that is not 0.
C12_InvalidRejectedBeforeDial ==
  Invalid(bparams) =>
    /\ bpc \in {"main", "rejected"}
    /\ worker = <<>>
    /\ bpc = "rejected" => (exitStatus # <<>> /\ exitStatus # <<0>>)

C12_Witness ==
  /\ bparams = Params(100, 7, 1)
  /\ bpc = "rejected" /\ exitStatus = <<255>> /\ worker = <<>>

\* C13: a worker dials at most MaxRetryCount + 1 times, does not dial
\* again after a dial that succeeded, and fails fatally exactly when its
\* (MaxRetryCount + 1)-th dial has failed, never with fewer failures.
C13_DialRetryBound ==
  \A w \in DOMAIN worker :
    /\ worker[w].dials <= MaxRetryCount + 1
    /\ worker[w].dials =
         worker[w].dialFails + (IF worker[w].conn = "none" THEN 0 ELSE 1)
    /\ worker[w].pc = "fatal" <=> worker[w].dialFails = MaxRetryCount + 1
    /\ worker[w].retryCount = MaxRetryCount - worker[w].dialFails

C13_Witness ==
  /\ Len(worker) = 2
  /\ worker[1].dials = MaxRetryCount + 1 /\ worker[1].conn = "open"
  /\ worker[2].pc = "fatal" /\ worker[2].dials = MaxRetryCount + 1

\* C14: Run returns only after every one of the `concurrency` workers has
\* delivered its completion signal; a worker delivers one signal, when it
\* ends, and never a second; a worker that has reached its signal is not
\* left blocked on it (unless the process is gone).
C14_JoinWaitsForEveryWorker ==
  /\ [](bpc = "returned" =>
          /\ \A id \in 0..(bparams.concurrency - 1) :
               id + 1 \in DOMAIN worker /\ worker[id + 1].signals = 1
          /\ received = Len(worker))
  /\ [](\A w \in DOMAIN worker :
          worker[w].signals =
            (IF worker[w].pc \in {"return", "done"} THEN 1 ELSE 0))
  /\ \A w \in 1..MaxConcurrency :
       (Wk(w).pc = "signal") ~> (Wk(w).signals = 1 \/ exitStatus # <<>>)

C14_Witness ==
  /\ bpc = "returned" /\ Len(worker) = 2
  /\ worker[1].why = "error" /\ worker[1].signals = 1
  /\ worker[2].why = "" /\ worker[2].signals = 1

\* C15: a Send that fails with a temporary error is tried again in place:
\* the failure moves neither the attempt counter nor the retry budget,
\* dials nothing and keeps the connection; a worker that met only such
\* failures and finished has made exactly its assigned number of
\* successful sends, all on one connection.
C15_TemporarySendRetriedInPlace ==
  /\ [][\A w \in DOMAIN worker :
          (worker[w].pc = "send" /\ ~worker[w].temps /\ worker'[w].temps) =>
            worker'[w] = [worker[w] EXCEPT !.temps = TRUE]]_vars
  /\ [](\A w \in DOMAIN worker :
          (worker[w].temps /\ worker[w].why = ""
             /\ worker[w].pc \in {"signal", "return", "done"}) =>
            /\ worker[w].sent = worker[w].attempts
            /\ worker[w].dials - worker[w].dialFails = 1)

C15_Witness ==
  /\ Len(worker) = 1 /\ worker[1].pc = "done"
  /\ worker[1].temps /\ worker[1].why = ""
  /\ worker[1].attempts = 2 /\ worker[1].sent = 2
  /\ worker[1].dialFails = 0 /\ worker[1].retryCount = MaxRetryCount

\* C16: a Send that fails with a transport error that is not temporary
\* ends the worker: it closes the connection, sends and dials nothing
\* more, leaves its remaining attempts undone, and goes on to deliver its
\* completion signal to Run.
C16_NonTemporarySendEndsWorker ==
  /\ [](\A w \in DOMAIN worker :
          worker[w].why = "error" =>
            /\ worker[w].pc \in {"signal", "return", "done"}
            /\ worker[w].conn = "closed"
            /\ worker[w].sent < worker[w].attempts)
  /\ [][\A w \in DOMAIN worker :
          worker[w].why = "error" =>
            /\ worker'[w].sent = worker[w].sent
            /\ worker'[w].dials = worker[w].dials]_vars
  /\ \A w \in 1..MaxConcurrency :
       (Wk(w).why = "error") ~> (Wk(w).signals = 1 \/ exitStatus # <<>>)

C16_Witness ==
  /\ Len(worker) = 1 /\ worker[1].why = "error" /\ worker[1].pc = "done"
  /\ worker[1].attempts = 3 /\ worker[1].sent = 1 /\ worker[1].dials = 1

\* C17: a worker that has used up its dial budget stops alone: every
\* other worker that has not finished can still take its next step.
C17_RetryExhaustedFatalToWorkerOnly ==
  \A w, v \in DOMAIN worker :
    (worker[w].pc = "fatal" /\ v # w /\ worker[v].pc \in {"dial", "send"}) =>
      ENABLED (\/ \E ok \in BOOLEAN : WorkerDial(v, ok)
               \/ \E outcome \in SendOutcomes : WorkerSend(v, outcome))
====
